---------------------------- MODULE Spec2Model ----------------------------
(* A model of lib/node-progress.js: the ProgressBar constructor, tick,     *)
(* setTick, render, terminate, the 1-second sampler callback, the debounce *)
(* callback, doRender, doFormat, timeRemaining and secondsToMin.           *)
(*                                                                         *)
(* Strings are sequences of one-character strings.  JavaScript numbers     *)
(* that can leave the integers (a quotient, NaN, +-Infinity) are records   *)
(* [k, n, d]: k = "fin" is the rational n/d with d > 0.  opsPerSec is      *)
(* kept in tenths (the code keeps floor(x * 10) / 10).                     *)
(*                                                                         *)
(* process.hrtime is not modelled: the fields it feeds (elapsedTime,       *)
(* totalOpsPerSec, the :elapsed token) are left out, and the formats drawn *)
(* as inputs hold no :elapsed token.                                       *)
EXTENDS Integers, Sequences, FiniteSets, TLC

VARIABLES barInc,    \* module-level counter of constructor calls
          bars,      \* module-level array of ids
          barLines,  \* module-level cache: id -> last string formatted by doRender
          obj,       \* the constructed instances: id -> fields
          platform,  \* process.platform
          out,       \* the last call: its name, its bar, its effects in order, whether it threw
          hist       \* history, per bar: were all calls so far tick(delta >= 0), and their sum

vars == <<barInc, bars, barLines, obj, platform, out, hist>>

-----------------------------------------------------------------------------
(* Bounds of the model. *)

MaxNew == 2       \* constructor calls
MaxTotal == 3     \* options.total; curr and the accumulator me.sample stay below MaxTotal + 2
MaxDelta == 2     \* the len of a tick
MaxSamples == 1   \* sampler callbacks of one bar

(* Program constants. *)

sampleCountMax == 20
DefaultWidth == 40
DefaultDelay == 1000

-----------------------------------------------------------------------------
(* Text. *)

Max(a, b) == IF a >= b THEN a ELSE b
Min(a, b) == IF a <= b THEN a ELSE b

Digit(n) == <<"0", "1", "2", "3", "4", "5", "6", "7", "8", "9">>[n + 1]

RECURSIVE NatText(_)
NatText(n) == IF n < 10 THEN <<Digit(n)>> ELSE NatText(n \div 10) \o <<Digit(n % 10)>>

(* Number.prototype.toString of an integer. *)
IntText(n) == IF n < 0 THEN <<"-">> \o NatText(0 - n) ELSE NatText(n)

RECURSIVE Repeat(_, _)
Repeat(c, n) == IF n <= 0 THEN <<>> ELSE <<c>> \o Repeat(c, n - 1)

NaNText == <<"N", "a", "N">>
InfinityText == <<"I", "n", "f", "i", "n", "i", "t", "y">>

newLine == <<"ESC", "[", "1", "B">>

(* JavaScript numbers. *)
Fin(n, d) == [k |-> "fin", n |-> n, d |-> d]
NaN == [k |-> "nan", n |-> 0, d |-> 1]
PosInf == [k |-> "inf", n |-> 0, d |-> 1]
NegInf == [k |-> "ninf", n |-> 0, d |-> 1]

(* a / (b10 / 10) for integers a and b10 >= 0. *)
DivByTenths(a, b10) ==
    IF b10 = 0
    THEN IF a = 0 THEN NaN ELSE IF a > 0 THEN PosInf ELSE NegInf
    ELSE Fin(a * 10, b10)

(* Number.prototype.toFixed(0) of n / d, for integers n and d > 0. *)
ToFixed0(n, d) ==
    LET a == IF n < 0 THEN 0 - n ELSE n
        r == (2 * a + d) \div (2 * d)
    IN  IF n < 0 THEN <<"-">> \o NatText(r) ELSE NatText(r)

(* Number.prototype.toString of t / 10 for t >= 0. *)
TenthsText(t) ==
    IF t % 10 = 0 THEN NatText(t \div 10)
    ELSE NatText(t \div 10) \o <<".">> \o <<Digit(t % 10)>>

-----------------------------------------------------------------------------
(* secondsToMin *)

secondsToMin(sec) ==
    IF sec.k = "fin"
    THEN LET hour == 60 * 60
             min == 60
             totalTimeHr == sec.n \div (sec.d * hour)
             totalTimeMin == (sec.n - totalTimeHr * hour * sec.d) \div (min * sec.d)
             totalTimeSec == (sec.n - totalTimeMin * min * sec.d
                                    - totalTimeHr * hour * sec.d) \div sec.d
         IN  (IF totalTimeHr > 0 THEN IntText(totalTimeHr) \o <<"h", "r", " ">> ELSE <<>>)
             \o IntText(totalTimeMin) \o <<"m", "i", "n", " ">>
             \o IntText(totalTimeSec) \o <<"s", "e", "c">>
    ELSE (* NaN, and +-Infinity (Infinity - Infinity is NaN): every part is NaN or *)
         (* an infinity that is not > 0 or is followed by NaN parts.               *)
         IF sec.k = "inf"
         THEN InfinityText \o <<"h", "r", " ">> \o NaNText \o <<"m", "i", "n", " ">>
              \o NaNText \o <<"s", "e", "c">>
         ELSE NaNText \o <<"m", "i", "n", " ">> \o NaNText \o <<"s", "e", "c">>

(* ProgressBar.prototype.timeRemaining *)
timeRemaining(me) ==
    LET ticksLeft == me.total - me.curr
        timeLeft == DivByTenths(ticksLeft, me.opsPerSec)
    IN  secondsToMin(IF timeLeft.k = "inf" THEN Fin(0, 1) ELSE timeLeft)

-----------------------------------------------------------------------------
(* doFormat.  A format is a sequence of pieces: a token or a literal       *)
(* character.                                                              *)

Esc(code) == <<"ESC", "[">> \o code \o <<"m">>

(* percent.toFixed(0) for percent = curr / total * 100, total >= 0. *)
PercentText(me) ==
    IF me.total = 0
    THEN IF me.curr = 0 THEN NaNText
         ELSE IF me.curr > 0 THEN InfinityText ELSE <<"-">> \o InfinityText
    ELSE ToFixed0(me.curr * 100, me.total)

(* The chain of String.prototype.replace calls of lines 346-358, on one piece. *)
Replace(me, piece) ==
    CASE piece = ":c[blue]" -> Esc(<<"1", ";", "3", "4">>)
      [] piece = ":c[white]" -> Esc(<<"1", ";", "3", "7">>)
      [] piece = ":c[yellow]" -> Esc(<<"1", ";", "3", "3">>)
      [] piece = ":c[red]" -> Esc(<<"1", ";", "3", "1">>)
      [] piece = ":c[none]" -> Esc(<<"0">>)
      [] piece = ":nl" -> newLine
      [] piece = ":current" -> IntText(me.curr)
      [] piece = ":total" -> IntText(me.total)
      [] piece = ":eta" -> timeRemaining(me)
      [] piece = ":percent" -> PercentText(me) \o <<"%">>
      [] piece = ":opsec" -> TenthsText(me.opsPerSec)
      [] OTHER -> <<piece>>

(* str.replace(':bar', x): the pieces' texts in order, x in the place of :bar. *)
RECURSIVE Fill(_, _, _)
Fill(me, format, x) ==
    IF format = <<>> THEN <<>>
    ELSE (IF Head(format) = ":bar" THEN x ELSE Replace(me, Head(format)))
         \o Fill(me, Tail(format), x)

(* Lines 360-365: NaN (a stream without columns) is [k |-> "nan"]. *)
BarWidth(me, format, win32) ==
    LET onWin(availableSpace) == IF availableSpace # 0 /\ win32 THEN availableSpace - 1
                                 ELSE availableSpace
    IN  IF ~me.stream.hasColumns THEN NaN
        ELSE Fin(Min(me.width,
                     onWin(Max(0, me.stream.columns - Len(Fill(me, format, <<>>))))), 1)

(* CompleteLength with Math.floor in the place of Math.round. *)
CompleteLengthFloor(me, width) ==
    IF me.total = 0
    THEN IF me.curr > 0 THEN width ELSE 0
    ELSE LET c == Min(Max(me.curr, 0), me.total)
         IN  (width * c) \div me.total

(* Lines 339-341 and 367-370: Math.round(width * ratio), NaN turned into 0. *)
CompleteLength(me, width) ==
    IF me.total = 0
    THEN IF me.curr > 0 THEN width ELSE 0
    ELSE LET c == Min(Max(me.curr, 0), me.total)
         IN  (2 * width * c + me.total) \div (2 * me.total)

(* Lines 371-376: the glyphs of the bar, for a numeric width. *)
BarGlyphs(me, width) ==
    LET glyphs(completeLength, complete, incomplete) ==
            (IF completeLength > 0
             THEN SubSeq(complete, 1, Len(complete) - 1) \o <<me.chars.head>>
             ELSE complete) \o incomplete
        bar(completeLength) ==
            glyphs(completeLength,
                   Repeat(me.chars.complete, Max(0, completeLength)),
                   Repeat(me.chars.incomplete, Max(0, width - completeLength)))
    IN  bar(CompleteLength(me, width))

(* doFormat: the string it returns and me.percent, or threw (Array(NaN) at *)
(* line 372 raises RangeError: Invalid array length).                      *)
doFormat(me, format, win32) ==
    LET bar(width, percent) ==
            IF width.k = "nan"
            THEN [threw |-> TRUE, str |-> <<>>, percent |-> percent]
            ELSE [threw |-> FALSE, str |-> Fill(me, format, BarGlyphs(me, width.n)),
                  percent |-> percent]
    IN  bar(BarWidth(me, format, win32), PercentText(me))

-----------------------------------------------------------------------------
(* The world the handlers run in: w.obj and w.barLines are the program's   *)
(* state, w.fx the effects of the running call so far (stream calls, hook  *)
(* calls, timer calls, console.log), w.threw whether it has thrown.        *)

Fx(k, s) == [k |-> k, s |-> s]
Emit(w, k, s) == [w EXCEPT !.fx = Append(@, Fx(k, s))]
SetField(w, id, f, v) == [w EXCEPT !.obj[id] = [@ EXCEPT ![f] = v]]
Throw(w) == [w EXCEPT !.threw = TRUE]

(* Object.keys(barLines): integer keys, in ascending order. *)
RECURSIVE Keys(_)
Keys(S) ==
    IF S = {} THEN <<>>
    ELSE LET m == CHOOSE x \in S : \A y \in S : x <= y
         IN  <<m>> \o Keys(S \ {m})

(* Lines 307-318: the strings of all cached bars, one after the other. *)
RECURSIVE BigStr(_, _, _)
BigStr(objs, lines, keys) ==
    IF keys = <<>> THEN <<>>
    ELSE objs[Head(keys)].title \o lines[Head(keys)] \o newLine \o <<" ">>
         \o BigStr(objs, lines, Tail(keys))

(* Draw without the test of me.complete at line 324. *)
DrawAlways(w, id, str, bigStr) ==
    LET me == w.obj[id]
    IN  IF me.lastDraw # str
        THEN IF ~me.stream.tty
             THEN Throw(w)
             ELSE SetField(
                    Emit(Emit(Emit(w, "clearLine", <<>>), "cursorTo", <<>>),
                         "write", IF me.justMe THEN str ELSE bigStr),
                    id, "lastDraw", str)
        ELSE w

(* Lines 324-331 of doRender: the write, given the formatted string. *)
Draw(w, id, str, bigStr) ==
    LET me == w.obj[id]
    IN  IF me.lastDraw # str /\ ~me.complete
        THEN IF ~me.stream.tty
             THEN Throw(w)   \* me.stream.clearLine is not a function
             ELSE SetField(
                    Emit(Emit(Emit(w, "clearLine", <<>>), "cursorTo", <<>>),
                         "write", IF me.justMe THEN str ELSE bigStr),
                    id, "lastDraw", str)
        ELSE w

doRender(w, id) ==
    LET me == w.obj[id]
        put(f) ==
            LET w1 == SetField(w, id, "percent", f.percent)
                lines == [i \in DOMAIN w.barLines \cup {id} |->
                            IF i = id THEN f.str ELSE w.barLines[i]]
                many == Cardinality(DOMAIN lines) > 1
                objs == IF many
                        THEN [i \in DOMAIN w1.obj |->
                                IF i \in DOMAIN lines /\ w1.obj[i].justMe
                                THEN [w1.obj[i] EXCEPT !.debounceLimit = me.delay]
                                ELSE w1.obj[i]]
                        ELSE w1.obj
                bigStr == IF many THEN BigStr(objs, lines, Keys(DOMAIN lines)) ELSE f.str
                w2 == [w1 EXCEPT !.obj = objs, !.barLines = lines]
            IN  IF f.threw THEN Throw(w1) ELSE Draw(w2, id, f.str, bigStr)
    IN  IF me.noRender THEN w
        ELSE put(doFormat(me, me.title \o <<" ">> \o me.fmt, platform = "win32"))

(* buildReport, without the fields the clock feeds. *)
buildReport(w, id) ==
    LET me == w.obj[id]
    IN  SetField(w, id, "report",
                 <<[title |-> me.title, barId |-> id, counted |-> me.curr,
                    expected |-> me.total, sampledOpsPerSec |-> me.opsPerSec]>>)

(* ProgressBar.prototype.terminate *)
terminate(w, id) ==
    LET me == w.obj[id]
    IN  IF me.clear
        THEN IF me.stream.tty
             THEN Emit(Emit(w, "clearLine", <<>>), "cursorTo", <<>>)
             ELSE w
        ELSE Emit(w, "write", <<"LF">>)

(* ProgressBar.prototype.logReport: four console.log calls. *)
logReport(w, id) ==
    Emit(Emit(Emit(Emit(w, "log", newLine), "log", w.obj[id].title),
              "log", <<"report">>), "log", newLine)

(* Lines 148-167 of render: curr === total.  writeLimit.clearTimeout is    *)
(* not a function (of null: a TypeError too); the catch swallows it, and   *)
(* the timeout stays scheduled.  The two assignments of the sequence (the  *)
(* report, the complete flag) are recorded among the effects, in their     *)
(* place.                                                                  *)
Completion(w, id) ==
    LET w1 == Emit(SetField(w, id, "sampleTimer", FALSE), "clearInterval", <<>>)
        rest(w2) ==
            LET w3 == Emit(buildReport(w2, id), "buildReport", <<>>)
                w4 == terminate(w3, id)
                w5 == Emit(w4, "onComplete", <<>>)
                w6 == Emit(SetField(w5, id, "complete", TRUE), "complete", <<>>)
            IN  IF w2.threw THEN w2 ELSE logReport(w6, id)
    IN  rest(doRender(w1, id))

(* Schedule without the test of line 173: a timeout per request. *)
ScheduleAlways(w, id) ==
    LET me == w.obj[id]
    IN  IF me.debounceLimit = 0 THEN doRender(w, id)
        ELSE Emit([w EXCEPT !.obj[id] = [@ EXCEPT !.writeLimit = "timeout",
                                                  !.timeouts = @ + 1]],
                  "setTimeout", <<>>)

(* Lines 170-179 of render: debounceLimit 0 stands for null. *)
Schedule(w, id) ==
    LET me == w.obj[id]
    IN  IF me.debounceLimit = 0 THEN doRender(w, id)
        ELSE IF me.writeLimit # "null" THEN w
        ELSE Emit([w EXCEPT !.obj[id] = [@ EXCEPT !.writeLimit = "timeout",
                                                  !.timeouts = @ + 1]],
                  "setTimeout", <<>>)

(* ProgressBar.prototype.render *)
render(w, id) ==
    IF w.obj[id].curr = w.obj[id].total THEN Completion(w, id) ELSE Schedule(w, id)

(* ProgressBar.prototype.setTick *)
setTick(w, id, newTick) ==
    LET w1 == SetField(w, id, "curr", newTick)
    IN  IF newTick > w.obj[id].total
        THEN SetField(w1, id, "complete", TRUE)
        ELSE render(w1, id)

onTickFmt == <<":current", " ", "/", " ", ":total", " ", "(", ":percent", ")">>

(* TickLen without the test of line 202: len || 1 turns a len of 0 into 1. *)
TickLenOrOne(arg) == IF arg.given /\ arg.val # 0 THEN arg.val ELSE 1

(* Lines 202-204 of tick: an omitted len is 1; 0 stays 0. *)
TickLen(arg) == IF arg.given /\ arg.val # 0 THEN arg.val ELSE IF arg.given THEN 0 ELSE 1

(* Lines 215-219 of tick. *)
TickHooks(w, id) ==
    LET hooks(f) ==
            LET w1 == SetField(w, id, "percent", f.percent)
            IN  IF f.threw THEN Throw(w1)
                ELSE render(Emit(Emit(w1, "onTick", f.str), "onUpdate", <<>>), id)
    IN  hooks(doFormat(w.obj[id], onTickFmt, platform = "win32"))

(* ProgressBar.prototype.tick *)
tick(w, id, arg) ==
    LET len == TickLen(arg)
        me == w.obj[id]
        w1 == [w EXCEPT !.obj[id] = [@ EXCEPT !.sample = @ + len, !.curr = @ + len]]
    IN  IF me.curr + len > me.total
        THEN SetField(w1, id, "complete", TRUE)
        ELSE TickHooks(w1, id)

RECURSIVE Sum(_)
Sum(q) == IF q = <<>> THEN 0 ELSE Head(q) + Sum(Tail(q))

(* sampleFlush without the shift of lines 98-100: the window grows. *)
sampleFlushNoShift(w, id) ==
    LET me == w.obj[id]
        timeSamples == Append(me.timeSamples, me.sample)
    IN  [w EXCEPT !.obj[id] = [@ EXCEPT !.timeSamples = timeSamples,
                                         !.sample = 0,
                                         !.opsPerSec = (Sum(timeSamples) * 10)
                                                         \div Len(timeSamples)]]

(* The setInterval callback of lines 95-106. *)
sampleFlush(w, id) ==
    LET me == w.obj[id]
        pushed == Append(me.timeSamples, me.sample)
        timeSamples == IF Len(pushed) > sampleCountMax THEN Tail(pushed) ELSE pushed
    IN  [w EXCEPT !.obj[id] = [@ EXCEPT !.timeSamples = timeSamples,
                                         !.sample = 0,
                                         !.opsPerSec = (Sum(timeSamples) * 10)
                                                         \div Len(timeSamples)]]

(* The setTimeout callback of lines 175-178. *)
writeLimitFire(w, id) ==
    LET w1 == [w EXCEPT !.obj[id] = [@ EXCEPT !.timeouts = @ - 1]]
        rest(w2) == IF w2.threw THEN w2 ELSE SetField(w2, id, "writeLimit", "null")
    IN  rest(doRender(w1, id))

-----------------------------------------------------------------------------
(* Inputs. *)

Num(v) == [type |-> "number", val |-> v]
Undefined == [type |-> "undefined", val |-> 0]
Str(v) == [type |-> "string", val |-> v]

TTY(columns) == [tty |-> TRUE, hasColumns |-> TRUE, columns |-> columns]
(* A stream that is no TTY: no columns, no clearLine, no cursorTo. *)
NonTTY == [tty |-> FALSE, hasColumns |-> FALSE, columns |-> 0]

(* A stream that reports columns and has write, but neither clearLine nor  *)
(* cursorTo.                                                               *)
Pipe(columns) == [tty |-> FALSE, hasColumns |-> TRUE, columns |-> columns]

DefaultFmt == <<"[", ":bar", "]", " ", ":percent">>
EtaFmt == <<":bar", " ", ":eta">>
BarFmt == <<":bar">>

(* An options object: format <<>>, width 0 and debounce 0 are the falsy    *)
(* values that the constructor replaces by its defaults.                   *)
Defaults(total) ==
    [total |-> total, stream |-> TTY(80), format |-> <<>>, width |-> 0,
     debounce |-> 0, justMe |-> FALSE, noRender |-> FALSE, clear |-> FALSE]

(* The options of the single bar of Spec. *)
Options ==
    {Defaults(Num(0)), Defaults(Num(MaxTotal)),
     [Defaults(Num(MaxTotal)) EXCEPT !.debounce = 100],
     [Defaults(Num(MaxTotal)) EXCEPT !.format = EtaFmt],
     [Defaults(Num(MaxTotal)) EXCEPT !.format = BarFmt, !.width = 2],
     [Defaults(Num(MaxTotal)) EXCEPT !.noRender = TRUE],
     [Defaults(Num(MaxTotal)) EXCEPT !.clear = TRUE],
     [Defaults(Num(MaxTotal)) EXCEPT !.stream = NonTTY]}

(* The options of the constructor calls of SpecNew. *)
NewOptions ==
    {Defaults(Undefined), Defaults(Str(MaxTotal)), Defaults(Num(0)),
     Defaults(Num(MaxTotal)), [Defaults(Num(MaxTotal)) EXCEPT !.debounce = 100]}

TickArgs == {[given |-> FALSE, val |-> 0]} \cup {[given |-> TRUE, val |-> v] : v \in 0..MaxDelta}
SetTickArgs == 0..(MaxTotal + 1)

-----------------------------------------------------------------------------
(* The constructor, lines 53-115, after its check of options.total. *)
NewObject(o) ==
    [stream |-> o.stream,
     fmt |-> IF o.format = <<>> THEN DefaultFmt ELSE o.format,
     curr |-> 0,
     total |-> o.total.val,
     width |-> IF o.width = 0 THEN DefaultWidth ELSE o.width,
     chars |-> [complete |-> "#", incomplete |-> "_", head |-> "="],  \* U+2588, U+2591, '='
     debounceLimit |-> o.debounce,
     opsPerSec |-> 0,
     writeLimit |-> "null",
     timeouts |-> 0,
     report |-> <<>>,
     justMe |-> o.justMe,
     noRender |-> o.noRender,
     percent |-> <<"0">>,
     sample |-> 0,
     timeSamples |-> <<>>,
     sampleTimer |-> TRUE,
     lastDraw |-> <<>>,
     clear |-> o.clear,
     title |-> <<"-", ">">>,
     delay |-> DefaultDelay,
     complete |-> FALSE]

Extend(f, id, v) == [i \in DOMAIN f \cup {id} |-> IF i = id THEN v ELSE f[i]]

World == [obj |-> obj, barLines |-> barLines, fx |-> <<>>, threw |-> FALSE]

(* History, per bar.  While every call on the bar has been a tick: the    *)
(* sum of the deltas (an omitted delta counts as 1), the number of ticks   *)
(* (counted up to 3) and the number of frames written to the stream        *)
(* (counted up to 2); all 0 from the first other call on.  And for good:   *)
(* whether some tick or setTick has left curr >= total, and how often the  *)
(* completion sequence has run to its onComplete hook (counted up to 2).   *)
NoHistory ==
    [onlyTicks |-> TRUE, sum |-> 0, n |-> 0, frames |-> 0, reached |-> FALSE, ran |-> 0]

Delta(arg) == IF arg.given THEN arg.val ELSE 1

Count(fx, k) == Cardinality({i \in DOMAIN fx : fx[i].k = k})
Frames(fx) == Cardinality({i \in DOMAIN fx : fx[i].k = "write" /\ fx[i].s # <<"LF">>})

HistAfter(h, op, delta, w, id) ==
    LET isTick == op = "tick"
        isCall == op \in {"tick", "setTick", "render", "terminate"}
        only == h.onlyTicks /\ (isTick \/ ~isCall)
    IN  [onlyTicks |-> only,
         sum |-> IF only THEN h.sum + delta ELSE 0,
         n |-> IF only THEN Min(h.n + (IF isTick THEN 1 ELSE 0), 3) ELSE 0,
         frames |-> IF only THEN Min(h.frames + Frames(w.fx), 2) ELSE 0,
         reached |-> h.reached \/ (op \in {"tick", "setTick"}
                                     /\ w.obj[id].curr >= w.obj[id].total),
         ran |-> Min(h.ran + Count(w.fx, "onComplete"), 2)]

(* The state after a call of op on bar id that left the world w. *)
Returns(op, id, delta, w) ==
    /\ obj' = w.obj
    /\ barLines' = w.barLines
    /\ out' = [op |-> op, id |-> id, fx |-> w.fx, threw |-> w.threw]
    /\ hist' = [hist EXCEPT ![id] = HistAfter(@, op, delta, w, id)]
    /\ UNCHANGED <<barInc, bars, platform>>

Init ==
    /\ barInc = 0
    /\ bars = <<>>
    /\ barLines = <<>>
    /\ obj = <<>>
    /\ platform = "linux"
    /\ out = [op |-> "load", id |-> 0, fx |-> <<>>, threw |-> FALSE]
    /\ hist = <<>>

(* new ProgressBar(options) *)
New(o, maxLive) ==
    LET id == barInc + 1
    IN  /\ barInc < MaxNew
        /\ Cardinality(DOMAIN obj) < maxLive
        /\ barInc' = id
        /\ bars' = Append(bars, id)
        /\ IF o.total.type # "number"
           THEN /\ out' = [op |-> "new", id |-> id, fx |-> <<>>, threw |-> TRUE]
                /\ UNCHANGED <<obj, hist>>
           ELSE /\ obj' = Extend(obj, id, NewObject(o))
                /\ hist' = Extend(hist, id, NoHistory)
                /\ out' = [op |-> "new", id |-> id,
                           fx |-> <<Fx("setInterval", <<>>), Fx("onStart", <<>>)>>,
                           threw |-> FALSE]
        /\ UNCHANGED <<barLines, platform>>

Tick(id, arg) ==
    /\ id \in DOMAIN obj
    /\ obj[id].curr + TickLen(arg) <= MaxTotal + 1
    /\ obj[id].sample + TickLen(arg) <= MaxTotal + 1
    /\ Returns("tick", id, Delta(arg), tick(World, id, arg))

SetTick(id, newTick) ==
    /\ id \in DOMAIN obj
    /\ Returns("setTick", id, 0, setTick(World, id, newTick))

Render(id) ==
    /\ id \in DOMAIN obj
    /\ Returns("render", id, 0, render(World, id))

Terminate(id) ==
    /\ id \in DOMAIN obj
    /\ Returns("terminate", id, 0, terminate(World, id))

(* The sampler's interval elapses, on a window shorter than maxLen. *)
SampleTimer(id, maxLen) ==
    /\ id \in DOMAIN obj
    /\ obj[id].sampleTimer
    /\ Len(obj[id].timeSamples) < maxLen
    /\ Returns("sampleTimer", id, 0, sampleFlush(World, id))

(* A scheduled debounce timeout elapses. *)
WriteLimit(id) ==
    /\ id \in DOMAIN obj
    /\ obj[id].timeouts > 0
    /\ Returns("writeLimit", id, 0, writeLimitFire(World, id))

Ids == 1..MaxNew

(* One live bar. *)
Next ==
    \/ \E o \in Options : New(o, 1)
    \/ \E id \in Ids, arg \in TickArgs : Tick(id, arg)
    \/ \E id \in Ids, v \in SetTickArgs : SetTick(id, v)
    \/ \E id \in Ids : Render(id)
    \/ \E id \in Ids : Terminate(id)
    \/ \E id \in Ids : SampleTimer(id, MaxSamples)
    \/ \E id \in Ids : WriteLimit(id)

Spec == Init /\ [][Next]_vars

(* One bar driven by tick calls alone, and its timers. *)
NextTick ==
    \/ \E o \in Options : New(o, 1)
    \/ \E id \in Ids, arg \in TickArgs : Tick(id, arg)
    \/ \E id \in Ids : SampleTimer(id, MaxSamples)
    \/ \E id \in Ids : WriteLimit(id)

SpecTick == Init /\ [][NextTick]_vars

(* One bar with a debounce interval, in the first second of its life: the *)
(* sampler has not fired yet.                                              *)
DebounceOptions ==
    {[Defaults(Num(MaxTotal)) EXCEPT !.debounce = 100],
     [Defaults(Num(MaxTotal)) EXCEPT !.debounce = 100, !.format = BarFmt, !.width = 2]}

NextDebounce ==
    \/ \E o \in DebounceOptions : New(o, 1)
    \/ \E id \in Ids, arg \in TickArgs : Tick(id, arg)
    \/ \E id \in Ids, v \in SetTickArgs : SetTick(id, v)
    \/ \E id \in Ids : Render(id)
    \/ \E id \in Ids : Terminate(id)
    \/ \E id \in Ids : WriteLimit(id)

SpecDebounce == Init /\ [][NextDebounce]_vars

(* Constructor calls with valid and invalid options, and ticks of the bars *)
(* they make.                                                              *)
NextNew ==
    \/ \E o \in NewOptions : New(o, MaxNew)
    \/ \E id \in Ids : Tick(id, [given |-> FALSE, val |-> 0])
    \/ \E id \in Ids : WriteLimit(id)

SpecNew == Init /\ [][NextNew]_vars

(* One bar that draws nothing, its ticks, and its sampler for as long as   *)
(* it runs: the window fills up and evicts.                                *)
SampleOptions == {[Defaults(Num(MaxTotal)) EXCEPT !.noRender = TRUE]}

NextSample ==
    \/ \E o \in SampleOptions : New(o, 1)
    \/ \E id \in Ids, arg \in TickArgs : Tick(id, arg)
    \/ \E id \in Ids : SampleTimer(id, sampleCountMax + 1)

SpecSample == Init /\ [][NextSample]_vars

(* Several live bars without a debounce interval, some with justMe, and    *)
(* their ticks.                                                            *)
MultiOptions ==
    {Defaults(Num(MaxTotal)), [Defaults(Num(MaxTotal)) EXCEPT !.justMe = TRUE]}

NextMulti ==
    \/ \E o \in MultiOptions : New(o, MaxNew)
    \/ \E id \in Ids : Tick(id, [given |-> FALSE, val |-> 0])
    \/ \E id \in Ids : WriteLimit(id)

SpecMulti == Init /\ [][NextMulti]_vars

(* One bar on a stream without clearLine and cursorTo. *)
SinkOptions ==
    {[Defaults(Num(MaxTotal)) EXCEPT !.stream = Pipe(80)],
     [Defaults(Num(MaxTotal)) EXCEPT !.stream = Pipe(80), !.clear = TRUE],
     [Defaults(Num(MaxTotal)) EXCEPT !.stream = Pipe(80), !.debounce = 100],
     [Defaults(Num(MaxTotal)) EXCEPT !.stream = Pipe(80), !.noRender = TRUE]}

NextSink ==
    \/ \E o \in SinkOptions : New(o, 1)
    \/ \E id \in Ids, arg \in TickArgs : Tick(id, arg)
    \/ \E id \in Ids, v \in SetTickArgs : SetTick(id, v)
    \/ \E id \in Ids : WriteLimit(id)

SpecSink == Init /\ [][NextSink]_vars

-----------------------------------------------------------------------------
(* doFormat and timeRemaining as functions: one instance whose fields are  *)
(* drawn from bounded sets, and calls of the two on it.                    *)

FormatStreams == {NonTTY, TTY(8), TTY(12), TTY(80)}
FormatWidths == {1, 3, DefaultWidth}
FormatRates == {0, 5, 25}     \* opsPerSec, in tenths

InitFormat ==
    /\ barInc = 1
    /\ bars = <<1>>
    /\ barLines = <<>>
    /\ \E total \in 0..MaxTotal, curr \in 0..(MaxTotal + 1), width \in FormatWidths,
          stream \in FormatStreams, fmt \in {DefaultFmt, EtaFmt, BarFmt},
          rate \in FormatRates :
          obj = <<[NewObject(Defaults(Num(total))) EXCEPT
                     !.curr = curr, !.width = width, !.stream = stream,
                     !.fmt = fmt, !.opsPerSec = rate]>>
    /\ platform \in {"linux", "win32"}
    /\ out = [op |-> "load", id |-> 0, fx |-> <<>>, threw |-> FALSE]
    /\ hist = <<NoHistory>>

(* doFormat(me, format), as doRender and tick call it. *)
Format(id, format) ==
    LET f == doFormat(obj[id], format, platform = "win32")
    IN  /\ obj' = [obj EXCEPT ![id].percent = f.percent]
        /\ out' = [op |-> "doFormat", id |-> id, fx |-> <<Fx("return", f.str)>>,
                   threw |-> f.threw]
        /\ UNCHANGED <<barInc, bars, barLines, platform, hist>>

(* me.timeRemaining() *)
TimeRemaining(id) ==
    /\ out' = [op |-> "timeRemaining", id |-> id,
               fx |-> <<Fx("return", timeRemaining(obj[id]))>>, threw |-> FALSE]
    /\ UNCHANGED <<barInc, bars, barLines, obj, platform, hist>>

NextFormat ==
    \/ Format(1, obj[1].title \o <<" ">> \o obj[1].fmt)
    \/ Format(1, onTickFmt)
    \/ TimeRemaining(1)

SpecFormat == InitFormat /\ [][NextFormat]_vars

-----------------------------------------------------------------------------
(* The claims. *)

Live == DOMAIN obj
IsTickOrSet(id) == out.op \in {"tick", "setTick"} /\ out.id = id
Writes(fx) == Count(fx, "write")

(* C1: over any sequence of tick/setTick calls on a bar, the completion    *)
(* sequence runs exactly once: the first call that leaves curr >= total    *)
(* (an exact hit or an overshoot) runs it, and no later call runs it       *)
(* again.  Stated for the bars with total > 0 on a TTY; the code violates  *)
(* it.                                                                     *)
C1_CompletionRunsExactlyOnce ==
    \A id \in Live :
        obj[id].total > 0 /\ obj[id].stream.tty =>
            /\ hist[id].ran <= 1
            /\ hist[id].reached => hist[id].ran = 1

(* C2: after any sequence of tick(delta) calls on a fresh bar, with        *)
(* delta >= 0 and an omitted delta counting as 1, whose sum S is below     *)
(* total, the bar is still running (complete not set, completion sequence  *)
(* not run, sampler armed) and curr = S.                                   *)
C2_TicksBelowTotalKeepRunning ==
    \A id \in Live :
        hist[id].onlyTicks /\ hist[id].sum < obj[id].total =>
            /\ obj[id].curr = hist[id].sum
            /\ ~obj[id].complete
            /\ hist[id].ran = 0
            /\ obj[id].sampleTimer

(* Three ticks, the last with a delta above 0, have left a bar below its total. *)
C2_Witness ==
    \E id \in Live :
        /\ hist[id].onlyTicks /\ hist[id].n = 3 /\ IsTickOrSet(id)
        /\ hist[id].sum = 2 /\ obj[id].total = MaxTotal /\ obj[id].curr = 2

(* C3: once a tick or setTick has left curr >= total (exact hit or         *)
(* overshoot, debounce render pending or not), neither the sampler nor a   *)
(* debounce timeout remains armed.  Stated for the bars with total > 0 on  *)
(* a TTY; the code violates it.                                            *)
C3_NoTimerAfterCompletion ==
    \A id \in Live :
        obj[id].total > 0 /\ obj[id].stream.tty /\ IsTickOrSet(id)
            /\ obj[id].curr >= obj[id].total =>
                ~obj[id].sampleTimer /\ obj[id].timeouts = 0

(* C4: terminate() cancels the sampler and any pending debounce timeout.   *)
(* As stated; the code violates it.                                        *)
C4_TerminateCancelsTimers ==
    \A id \in Live :
        out.op = "terminate" /\ out.id = id =>
            ~out.threw /\ ~obj[id].sampleTimer /\ obj[id].timeouts = 0

(* The frame doRender formats for the bar as it is now. *)
FrameNow(id) == doFormat(obj[id], obj[id].title \o <<" ">> \o obj[id].fmt, platform = "win32").str

C6_InvalidTotalRejected ==
    [][\A o \in NewOptions :
          New(o, MaxNew) /\ (o.total.type # "number" \/ o.total.val = 0) =>
              /\ out'.threw
              /\ Count(out'.fx, "setInterval") = 0
              /\ obj' = obj
              /\ barInc' = barInc
              /\ bars' = bars]_vars

(* C7: a tick or setTick on a bar whose completion sequence has run is a   *)
(* no-op: it throws nothing, changes no field of the bar (curr, sample,    *)
(* lastDraw, report, timers), calls no hook and no stream method.  Stated  *)
(* for the bars with total > 0 on a TTY; the code violates it.             *)
C7_TickAfterTerminationIsNoOp ==
    [][\A id \in Live :
          /\ obj[id].total > 0 /\ obj[id].stream.tty
          /\ obj[id].complete /\ hist[id].ran > 0
          /\ out'.op \in {"tick", "setTick"} /\ out'.id = id
          => /\ ~out'.threw
             /\ out'.fx = <<>>
             /\ obj'[id] = obj[id]]_vars

(* C8: whenever opsPerSec is 0 and 0 <= curr <= total, timeRemaining()     *)
(* returns '0min 0sec'.  Stated for the bars with total > 0 on a TTY; the  *)
(* code violates it.                                                       *)
C8_EtaZeroWithoutSamples ==
    \A id \in Live :
        obj[id].total > 0 /\ obj[id].stream.tty /\ obj[id].opsPerSec = 0
            /\ 0 <= obj[id].curr /\ obj[id].curr <= obj[id].total =>
                timeRemaining(obj[id]) = <<"0", "m", "i", "n", " ", "0", "s", "e", "c">>

IsRequest(o, id) == o.op \in {"tick", "setTick", "render"} /\ o.id = id /\ ~o.threw

(* C9: when a render is requested twice in a row on a bar and the second   *)
(* request changes none of the values the frame is built from (curr,       *)
(* total, opsPerSec), the second request writes nothing to the stream.     *)
(* Stated for the bars with total > 0 on a TTY; the code violates it.      *)
C9_RenderIdempotent ==
    [][\A id \in Live :
          /\ obj[id].total > 0 /\ obj[id].stream.tty
          /\ IsRequest(out, id) /\ IsRequest(out', id)
          /\ obj'[id].curr = obj[id].curr
          /\ obj'[id].opsPerSec = obj[id].opsPerSec
          => Writes(out'.fx) = 0]_vars

Glyphs(me) == {me.chars.complete, me.chars.incomplete, me.chars.head}
GlyphCount(me, str) == Cardinality({i \in DOMAIN str : str[i] \in Glyphs(me)})

(* C10: for every state and terminal width, a stream that reports no       *)
(* column width included, doFormat builds a bar whose glyph count is not   *)
(* negative and does not exceed min(configured width, available space),    *)
(* the available space being columns - length of the text around the bar   *)
(* and never below 0; without a column width, the configured width.  The   *)
(* code violates it.                                                       *)
C10_BarFitsTerminal ==
    \A id \in Live :
        out.op = "doFormat" /\ out.id = id =>
            LET me == obj[id]
                str == out.fx[1].s
                n == GlyphCount(me, str)
            IN  /\ ~out.threw
                /\ n >= 0
                /\ n <= me.width
                /\ me.stream.hasColumns =>
                       n <= Max(0, me.stream.columns - (Len(str) - n))

IsSinkCall(e) == e.k \in {"write", "clearLine", "cursorTo"}
SinkCalls(fx) == Cardinality({i \in DOMAIN fx : IsSinkCall(fx[i])})

(* C11: with noRender set, no tick or setTick, the one that completes the  *)
(* bar included, calls write, clearLine or cursorTo on the stream.  As     *)
(* stated; the code violates it.                                           *)
C11_NoRenderWritesNothing ==
    \A id \in Live :
        obj[id].noRender /\ IsTickOrSet(id) => SinkCalls(out.fx) = 0

(* C12: a tick or setTick during which a call of the stream fails (here:   *)
(* clearLine is missing on the stream) returns normally, and curr has been *)
(* advanced.  Stated for the streams that report their columns; the code   *)
(* violates it.                                                            *)
C12_SinkFailureSwallowed ==
    \A id \in Live :
        obj[id].stream.hasColumns /\ IsTickOrSet(id) =>
            /\ ~out.threw
            /\ hist[id].onlyTicks => obj[id].curr = hist[id].sum

Kinds(fx) == [i \in DOMAIN fx |-> fx[i].k]
First(fx, k) == CHOOSE i \in DOMAIN fx : fx[i].k = k /\ \A j \in 1..(i - 1) : fx[j].k # k

(* The steps of a completion in the order of section 4.3, for a bar that   *)
(* renders: the kinds of the effects, the last being the complete flag.    *)
CompletionOrder(me) ==
    <<"clearInterval", "clearLine", "cursorTo", "write", "buildReport">>
    \o (IF me.clear THEN <<"clearLine", "cursorTo">> ELSE <<"write">>)
    \o <<"onComplete", "log", "log", "log", "log", "complete">>

(* C13: in the call that completes a bar the steps come in this order:     *)
(* timers cancelled, the frame of curr = total written, report built,      *)
(* finalize (newline, or line cleared), onComplete called, report logged,  *)
(* and then the bar marked complete.  Stated for the first completion of a *)
(* rendering bar with total > 0 on a TTY; the code violates it.            *)
C13_CompletionOrder ==
    \A id \in Live :
        /\ obj[id].total > 0 /\ obj[id].stream.tty /\ ~obj[id].noRender
        /\ IsTickOrSet(id) /\ Count(out.fx, "onComplete") > 0 /\ hist[id].ran = 1
        => LET from == First(out.fx, "clearInterval")
               steps == SubSeq(out.fx, from, Len(out.fx))
           IN  /\ Kinds(steps) = CompletionOrder(obj[id])
               /\ steps[4].s = FrameNow(id)
               /\ ~obj[id].sampleTimer /\ obj[id].timeouts = 0
               /\ obj[id].complete

(* C14: no tick(delta) and no setTick(value) leaves curr below its value   *)
(* before the call.  As stated; the code violates it.                      *)
C14_CurrNeverDecreases ==
    [][\A id \in Live :
          out'.op \in {"tick", "setTick"} /\ out'.id = id
          => obj'[id].curr >= obj[id].curr]_vars

(* C15: a tick or setTick that advances curr adds the amount it advances   *)
(* to the accumulator me.sample.  As stated; the code violates it.         *)
C15_AdvanceIsSampled ==
    [][\A id \in Live :
          /\ out'.op \in {"tick", "setTick"} /\ out'.id = id
          /\ ~out'.threw /\ obj'[id].curr >= obj[id].curr
          => obj'[id].sample - obj[id].sample = obj'[id].curr - obj[id].curr]_vars

(* C16: every sampler flush leaves at most 20 samples in the window, the   *)
(* window being the old one with the accumulator appended and, on          *)
(* overflow, its oldest sample dropped; it resets the accumulator to 0;    *)
(* and it leaves opsPerSec = floor(mean(window) * 10) / 10.                *)
C16_SamplerFlush ==
    [][\A id \in Live :
          out'.op = "sampleTimer" /\ out'.id = id
          => LET old == obj[id].timeSamples
                 new == obj'[id].timeSamples
                 n == Len(new)
                 kept == IF Len(old) < 20 THEN old ELSE SubSeq(old, 2, Len(old))
                 ops10 == obj'[id].opsPerSec       \* opsPerSec * 10
             IN  /\ n <= 20 /\ n = Len(kept) + 1
                 /\ SubSeq(new, 1, n - 1) = kept
                 /\ new[n] = obj[id].sample
                 /\ obj'[id].sample = 0
                 /\ ops10 * n <= 10 * Sum(new)
                 /\ 10 * Sum(new) < (ops10 + 1) * n]_vars

(* A flush on a full window has evicted a sample that was not 0 (the       *)
(* window and the accumulator hold less than curr), and the mean of the 20 *)
(* samples left, 3 / 20, is cut to 0.1.                                    *)
C16_Witness ==
    \E id \in Live :
        /\ out.op = "sampleTimer" /\ out.id = id
        /\ Len(obj[id].timeSamples) = 20
        /\ Sum(obj[id].timeSamples) = 3 /\ obj[id].curr = 4
        /\ obj[id].opsPerSec = 1

(* The configuration of a bar. *)
Configuration(me) ==
    [format |-> me.fmt, width |-> me.width, glyphs |-> me.chars,
     debounce |-> me.debounceLimit, title |-> me.title, clear |-> me.clear]

(* C17: no operation on any bar changes the format, width, glyphs,         *)
(* debounce interval, title or clear flag of a bar.  As stated; the code   *)
(* violates it.                                                            *)
C17_ConfigurationImmutable ==
    [][\A id \in Live : Configuration(obj'[id]) = Configuration(obj[id])]_vars

(* The bar of w glyphs of which k are on the complete side. *)
BarOf(me, w, k) ==
    (IF k > 0 THEN [i \in 1..(k - 1) |-> me.chars.complete] \o <<me.chars.head>> ELSE <<>>)
    \o [i \in 1..(w - k) |-> me.chars.incomplete]

(* C18: for curr in 0..total and the bar width w that doFormat chooses,    *)
(* the bar of a frame is k = round(w * curr / total) complete-side glyphs, *)
(* the last of them the head glyph when k > 0, followed by w - k           *)
(* incomplete glyphs, and the frame holds no other glyph.  k is the        *)
(* integer with k - 1/2 <= w * curr / total < k + 1/2.  Stated for the     *)
(* frames (title, a space, the format) on a stream that reports columns.   *)
C18_BarComposition ==
    \A id \in Live :
        LET me == obj[id]
            str == out.fx[1].s
        IN  /\ out.op = "doFormat" /\ out.id = id /\ me.stream.hasColumns
            /\ me.total > 0 /\ 0 <= me.curr /\ me.curr <= me.total
            /\ out.threw \/ (Len(str) >= 2 /\ SubSeq(str, 1, 2) = me.title)
            => LET w == BarWidth(me, me.title \o <<" ">> \o me.fmt, platform = "win32").n
                   k == CHOOSE k \in 0..w :
                            /\ (2 * k - 1) * me.total <= 2 * w * me.curr
                            /\ 2 * w * me.curr < (2 * k + 1) * me.total
               IN  /\ ~out.threw
                   /\ GlyphCount(me, str) = w
                   /\ \E i \in 1..(Len(str) - w + 1) :
                          SubSeq(str, i, i + w - 1) = BarOf(me, w, k)

(* Half of the work done on a bar of width 3: two complete-side glyphs,    *)
(* the second the head, one incomplete glyph, and 50%.                     *)
C18_Witness ==
    \E id \in Live :
        /\ out.op = "doFormat" /\ out.id = id
        /\ obj[id].total = 2 /\ obj[id].curr = 1 /\ obj[id].width = 3
        /\ out.fx[1].s = <<"-", ">", " ", "[", "#", "=", "_", "]", " ", "5", "0", "%">>

(* C19: once the complete flag of a bar is set, no tick, setTick or timer  *)
(* callback of the bar clears the flag, writes a frame to the stream or    *)
(* changes lastDraw.                                                       *)
C19_NoReentry ==
    [][\A id \in Live :
          /\ obj[id].complete
          /\ out'.op \in {"tick", "setTick", "sampleTimer", "writeLimit"} /\ out'.id = id
          => /\ obj'[id].complete
             /\ Frames(out'.fx) = 0
             /\ obj'[id].lastDraw = obj[id].lastDraw]_vars

(* The debounce timeout has fired on a bar that was complete and whose     *)
(* frame had changed since the last draw: it has written nothing.          *)
C19_Witness ==
    \E id \in Live :
        /\ obj[id].complete /\ ~obj[id].noRender /\ obj[id].stream.tty
        /\ out.op = "writeLimit" /\ out.id = id /\ out.fx = <<>>
        /\ obj[id].lastDraw # FrameNow(id)

(* C20: a bar constructed without a debounce interval (every bar of        *)
(* SpecMulti) and with rendering enabled is drawn at once: when a tick or  *)
(* setTick on it returns and the bar is still running, lastDraw is the     *)
(* frame of the state after the call, other bars being live or not.  The   *)
(* code violates it.                                                       *)
C20_ImmediateRender ==
    \A id \in Live :
        /\ IsTickOrSet(id) /\ ~out.threw
        /\ ~obj[id].noRender /\ ~obj[id].complete /\ obj[id].curr < obj[id].total
        => obj[id].lastDraw = FrameNow(id)

=============================================================================
